---- MODULE Spec2Model ----
(***************************************************************************)
(* Text layout and composition engine of the ad-creative generator         *)
(* (src/index.tsx): greedy word wrap, overlay panel layout, CTA button     *)
(* placement and logo placement.                                           *)
(*                                                                         *)
(* Representation.                                                         *)
(*  - A JavaScript string is a sequence of one-character strings, so that  *)
(*    split, trim and the template literals are computed, not assumed.     *)
(*  - Lengths are exact rationals held as integers in units of 1/200 px    *)
(*    (Unit): every factor of the style calculations (0.06, 1.3, 1.4, 1.2, *)
(*    1.1, 2.4, /2) is then an integer factor.  Binary floating point      *)
(*    rounding of the same expressions is not modelled.                    *)
(*  - CanvasRenderingContext2D.measureText belongs to the browser.  It is  *)
(*    modelled as the sum of the advance widths of the characters under    *)
(*    the context's current font; the advance table (tenths of an em per   *)
(*    character) is an input.                                              *)
(***************************************************************************)
EXTENDS Integers, Sequences, FiniteSets, TLC

VARIABLES
    wrapArgs,   \* arguments of the calculateWrappedTextHeight call under study
    wrapOut,    \* its return value
    wrapPc,     \* "idle" before the call, "done" after it
    glyphs,     \* the browser's advance table for the font family in use
    call,       \* arguments of the compositor call under study
    callPc,     \* where the call's promise stands
    callOut,    \* what the call has drawn and settled with
    state,      \* the module-level AppState
    calls,      \* the compositor calls made so far, in order of their start
    callTrace,  \* the phases the compositor call under study has gone through, with
                \* its URL.createObjectURL / URL.revokeObjectURL calls, in order
    gen,        \* the handleGenerate invocation: where it waits and what it holds
    regen,      \* the handleRegenerateCopy invocation
    upd,        \* the handleUpdateCreative invocation
    now,        \* Date.now()
    imageGen    \* the handleGenerateImage invocation

wrapVars == <<wrapArgs, wrapOut, wrapPc>>

callVars == <<glyphs, call, callPc, callOut>>

appVars == <<state, calls>>

envVars == <<callTrace>>

taskVars == <<gen, regen, upd, now, imageGen>>

vars == <<wrapArgs, wrapOut, wrapPc, glyphs, call, callPc, callOut, state, calls,
          callTrace, gen, regen, upd, now, imageGen>>

----------------------------------------------------------------------------
(* Bounds of the model *)

MaxTextLen == 4
MaxWidthSteps == 4

(* Units per CSS pixel: halves of hundredths. *)
Unit == 2 * 100

----------------------------------------------------------------------------
(* Strings *)

Chars == {"a", "b", " ", "\t"}

RECURSIVE StringsUpTo(_)
StringsUpTo(n) ==
    IF n = 0 THEN {<<>>}
    ELSE LET shorter == StringsUpTo(n - 1)
         IN  shorter \cup {Append(s, c) : s \in {t \in shorter : Len(t) = n - 1}, c \in Chars}

Max(a, b) == IF a > b THEN a ELSE b

IsWhiteSpace(c) == c \in {" ", "\t"}

RECURSIVE trimStart(_)
trimStart(s) ==
    IF s # <<>> /\ IsWhiteSpace(Head(s)) THEN trimStart(Tail(s)) ELSE s

RECURSIVE trimEnd(_)
trimEnd(s) ==
    IF s # <<>> /\ IsWhiteSpace(s[Len(s)]) THEN trimEnd(SubSeq(s, 1, Len(s) - 1)) ELSE s

(* String.prototype.trim *)
trim(s) == trimEnd(trimStart(s))

(* String.prototype.split(' '): the pieces between single space characters;
   the empty string yields one empty piece. *)
RECURSIVE splitFrom(_, _, _, _)
splitFrom(s, i, piece, done) ==
    IF i > Len(s) THEN Append(done, piece)
    ELSE IF s[i] = " " THEN splitFrom(s, i + 1, <<>>, Append(done, piece))
    ELSE splitFrom(s, i + 1, Append(piece, s[i]), done)

split(s) == splitFrom(s, 1, <<>>, <<>>)

(* Array.prototype.join(' ') *)
RECURSIVE join(_)
join(pieces) ==
    IF pieces = <<>> THEN <<>>
    ELSE IF Len(pieces) = 1 THEN pieces[1]
    ELSE pieces[1] \o <<" ">> \o join(Tail(pieces))

----------------------------------------------------------------------------
(* Text measurement *)

(* Advance widths in tenths of an em, per character. *)
GlyphTables ==
    { [c \in Chars |-> 5],
      [c \in Chars |-> IF c = "b" THEN 10 ELSE 5] }

RECURSIVE SumAdvance(_, _)
SumAdvance(table, s) ==
    IF s = <<>> THEN 0 ELSE table[Head(s)] + SumAdvance(table, Tail(s))

(* context.measureText(s): font.size is in tenths of a pixel, so the width in
   Unit is (advance/10) * (size/10) * 200. *)
measureText(context, s) ==
    [width |-> 2 * context.font.size * SumAdvance(context.glyphs, s)]

----------------------------------------------------------------------------
(* calculateWrappedTextHeight *)

(* `${currentLine} ${word}` *)
testLineOf(currentLine, word) ==
    IF Len(currentLine) > 0 THEN currentLine \o <<" ">> \o word ELSE word

(* Mutant: the line is broken but the candidate is committed, so the word
   appears on two lines. *)
WrapStep_pushTestLine(context, acc, word, maxWidth) ==
    LET testLine == testLineOf(acc.currentLine, word)
        metrics  == measureText(context, testLine)
    IN  IF metrics.width > maxWidth /\ Len(acc.currentLine) > 0
        THEN [lines |-> Append(acc.lines, testLine), currentLine |-> word]
        ELSE [lines |-> acc.lines, currentLine |-> testLine]

(* Mutant: the comparison with maxWidth is reversed. *)
WrapStep_reversedTest(context, acc, word, maxWidth) ==
    LET testLine == testLineOf(acc.currentLine, word)
        metrics  == measureText(context, testLine)
    IN  IF metrics.width < maxWidth /\ Len(acc.currentLine) > 0
        THEN [lines |-> Append(acc.lines, acc.currentLine), currentLine |-> word]
        ELSE [lines |-> acc.lines, currentLine |-> testLine]

(* Mutant: the word alone is measured instead of the candidate line. *)
WrapStep_measuresWord(context, acc, word, maxWidth) ==
    LET testLine == testLineOf(acc.currentLine, word)
        metrics  == measureText(context, word)
    IN  IF metrics.width > maxWidth /\ Len(acc.currentLine) > 0
        THEN [lines |-> Append(acc.lines, acc.currentLine), currentLine |-> word]
        ELSE [lines |-> acc.lines, currentLine |-> testLine]

(* One iteration of the for-loop over the words. *)
WrapStep(context, acc, word, maxWidth) ==
    LET testLine == testLineOf(acc.currentLine, word)
        metrics  == measureText(context, testLine)
    IN  IF metrics.width > maxWidth /\ Len(acc.currentLine) > 0
        THEN [lines |-> Append(acc.lines, acc.currentLine), currentLine |-> word]
        ELSE [lines |-> acc.lines, currentLine |-> testLine]

RECURSIVE WrapLoop(_, _, _, _, _)
WrapLoop(context, words, i, acc, maxWidth) ==
    IF i > Len(words) THEN acc
    ELSE WrapLoop(context, words, i + 1, WrapStep(context, acc, words[i], maxWidth), maxWidth)

IsBlankText(text) == text = <<>> \/ trim(text) = <<>>

(* Mutant: only the empty string is treated as blank (no trim). *)
calculateWrappedTextHeight_noTrim(context, text, maxWidth, lineHeight) ==
    IF text = <<>>
    THEN [lines |-> <<>>, height |-> 0]
    ELSE LET words == split(text)
             acc   == WrapLoop(context, words, 1,
                               [lines |-> <<>>, currentLine |-> <<>>], maxWidth)
             lines == Append(acc.lines, acc.currentLine)
         IN  [lines |-> lines, height |-> Len(lines) * lineHeight]

calculateWrappedTextHeight(context, text, maxWidth, lineHeight) ==
    IF IsBlankText(text)
    THEN [lines |-> <<>>, height |-> 0]
    ELSE LET words == split(text)
             acc   == WrapLoop(context, words, 1,
                               [lines |-> <<>>, currentLine |-> <<>>], maxWidth)
             lines == Append(acc.lines, acc.currentLine)
         IN  [lines |-> lines, height |-> Len(lines) * lineHeight]

----------------------------------------------------------------------------
(* Specification of a single wrap call: the arguments are drawn in the
   initial state, WrapCall applies the function. *)

(* An async handler that is not running. *)
NoInvocation == [pc |-> "idle"]

(* handleGenerate not running: issued holds the calls to the generative
   service its last invocation made. *)
NoGenerate == [pc |-> "idle", issued |-> {}]

(* let state: AppState = {...}.  A field of type T | null holds <<>> for null
   and <<v>> for the value v; storage is empty. *)
InitialState ==
    [ isLoading |-> FALSE, isCopyLoading |-> FALSE, generatedCreative |-> <<>>,
      savedCreatives |-> <<>>, error |-> <<>>, logoFile |-> <<>>,
      activeTab |-> "creative", campaignDescription |-> "", imagePrompt |-> "",
      logoPosition |-> "bottom-right", ctaText |-> <<>>, editingCreative |-> <<>>,
      savedImages |-> <<>>, imageSource |-> "generate", selectedSavedImageId |-> <<>>,
      isImageLoading |-> FALSE, imageError |-> <<>>, generatedImageUrl |-> <<>>,
      imageGenPrompt |-> "", imageGenStyle |-> "Fotorealista", imageGenFormat |-> "1:1" ]

(* The fonts renderTextOnImage sets before wrapping, at their minimum sizes. *)
WrapFonts == { [weight |-> 700, size |-> 240], [weight |-> 400, size |-> 160] }

WrapContexts == { [font |-> f, glyphs |-> g] : f \in WrapFonts, g \in GlyphTables }

(* Width of the narrowest glyph under a context: every measured width is a
   multiple of it, so widths between two multiples behave like the lower. *)
GlyphStep(context) == 2 * context.font.size * 5

WrapWidths(context) == { k * GlyphStep(context) : k \in 1..MaxWidthSteps }

WrapLineHeights == { 13 * 240 * 2, 14 * 160 * 2 }

InitWrap ==
    /\ wrapArgs \in { [context |-> c, text |-> t, maxWidth |-> w, lineHeight |-> h] :
                        c \in WrapContexts, t \in StringsUpTo(MaxTextLen),
                        w \in UNION { WrapWidths(cc) : cc \in WrapContexts },
                        h \in WrapLineHeights }
    /\ wrapArgs.maxWidth \in WrapWidths(wrapArgs.context)
    /\ wrapOut = [lines |-> <<>>, height |-> 0]
    /\ wrapPc = "idle"
    /\ glyphs = wrapArgs.context.glyphs
    /\ call = [fn |-> "none"]
    /\ callPc = "Idle"
    /\ callOut = [ops |-> <<>>]
    /\ state = InitialState
    /\ calls = <<>>
    /\ callTrace = <<"Idle">>
    /\ gen = NoGenerate
    /\ regen = NoInvocation
    /\ upd = NoInvocation
    /\ imageGen = NoInvocation
    /\ now = 0

WrapCall ==
    /\ wrapPc = "idle"
    /\ wrapOut' = calculateWrappedTextHeight(wrapArgs.context, wrapArgs.text,
                                             wrapArgs.maxWidth, wrapArgs.lineHeight)
    /\ wrapPc' = "done"
    /\ UNCHANGED <<wrapArgs, callVars, appVars, envVars, taskVars>>

NextWrap == WrapCall

SpecWrap == InitWrap /\ [][NextWrap]_vars

----------------------------------------------------------------------------
(* renderTextOnImage: style, content height, panel and drawing. *)

(* ctx.font = `${weight} ${size}px Inter, sans-serif`; size in tenths of a px. *)
setFont(context, weight, size) == [context EXCEPT !.font = [weight |-> weight, size |-> size]]

(* document.createElement('canvas').getContext('2d'): a new context, with the
   canvas default font (10px). *)
getContext2d == [font |-> [weight |-> 400, size |-> 100], glyphs |-> glyphs]

(* Style calculations from the canvas width (in px); lengths in Unit, font
   sizes in px. *)
styleOf(canvasWidth) ==
    LET headlineFontSize == Max(24, canvasWidth \div 20)
        bodyFontSize     == Max(16, canvasWidth \div 30)
        padding          == 12 * canvasWidth
    IN  [ padding            |-> padding,
          contentWidth       |-> Unit * canvasWidth - (padding * 2),
          headlineFontSize   |-> headlineFontSize,
          headlineLineHeight |-> 260 * headlineFontSize,
          bodyFontSize       |-> bodyFontSize,
          bodyLineHeight     |-> 280 * bodyFontSize,
          spacing            |-> 240 * bodyFontSize ]

(* ctaText && ctaText.trim().length > 0; an optional string is a sequence of
   at most one string. *)
hasCta(ctaText) == ctaText # <<>> /\ ctaText[1] # <<>> /\ Len(trim(ctaText[1])) > 0

(* ctaFontSize = bodyFontSize * 1.1, in tenths of a px. *)
ctaFontSizeOf(bodyFontSize) == 11 * bodyFontSize

(* ctaBlockHeight: ctaFontSize * 2.4 when there is a CTA, else 0. *)
ctaBlockHeightOf(ctaText, bodyFontSize) ==
    IF hasCta(ctaText) THEN 528 * bodyFontSize ELSE 0

(* Mutant: the spacing is added whether or not the body has lines. *)
totalContentHeightOf_alwaysSpacing(headlineMetrics, bodyMetrics, style, ctaText, ctaBlockHeight) ==
    headlineMetrics.height + style.spacing + bodyMetrics.height
      + (IF hasCta(ctaText) THEN style.padding + ctaBlockHeight ELSE 0)

(* The dry run accumulating totalContentHeight. *)
totalContentHeightOf(headlineMetrics, bodyMetrics, style, ctaText, ctaBlockHeight) ==
    headlineMetrics.height
      + (IF bodyMetrics.height > 0 THEN style.spacing + bodyMetrics.height ELSE 0)
      + (IF hasCta(ctaText) THEN style.padding + ctaBlockHeight ELSE 0)

(* Mutant: the panel top is not clamped to the canvas. *)
safeRectYOf_unclamped(canvasHeight, rectHeight) == canvasHeight - rectHeight

(* safeRectY = Math.max(0, canvas.height - rectHeight) *)
safeRectYOf(canvasHeight, rectHeight) == Max(0, canvasHeight - rectHeight)

(* Mutant: the repositioned button keeps a full padding below it. *)
ctaYOf_fullPadding(currentY, ctaBlockHeight, canvasHeight, padding) ==
    IF currentY + ctaBlockHeight > canvasHeight
    THEN canvasHeight - ctaBlockHeight - padding
    ELSE currentY

(* The safety check on the button's y. *)
ctaYOf(currentY, ctaBlockHeight, canvasHeight, padding) ==
    IF currentY + ctaBlockHeight > canvasHeight
    THEN canvasHeight - ctaBlockHeight - (padding \div 2)
    ELSE currentY

(* Mutant: the button starts at the centre instead of being centred. *)
ctaButtonXOf_fromCentre(canvasWidth, ctaButtonWidth) == canvasWidth \div 2

(* ctaButtonX = (canvas.width - ctaButtonWidth) / 2; both are even in Unit. *)
ctaButtonXOf(canvasWidth, ctaButtonWidth) == (canvasWidth - ctaButtonWidth) \div 2

(* drawWrappedText: one fillText per line, y advancing by lineHeight. *)
drawWrappedText(context, lines, x, y, lineHeight) ==
    [ i \in 1..Len(lines) |->
        [ op |-> "fillText", text |-> lines[i], x |-> x, y |-> y + (i - 1) * lineHeight,
          font |-> context.font, fillStyle |-> "white", textBaseline |-> "top",
          w |-> 0, h |-> 0 ] ]

fillRect(x, y, w, h, fillStyle) ==
    [ op |-> "fillRect", text |-> <<>>, x |-> x, y |-> y,
      font |-> [weight |-> 0, size |-> 0], fillStyle |-> fillStyle, textBaseline |-> "",
      w |-> w, h |-> h ]

(* The body of baseImage.onload: the canvas it leaves and the values of its
   locals. *)
renderOnload(baseImage, headline, body, ctaText) ==
    LET ctx0   == getContext2d
        width  == baseImage.width
        height == Unit * baseImage.height
        style  == styleOf(width)
        ctxH   == setFont(ctx0, 700, 10 * style.headlineFontSize)
        headlineMetrics == calculateWrappedTextHeight(ctxH, headline, style.contentWidth,
                                                      style.headlineLineHeight)
        ctxB   == setFont(ctxH, 400, 10 * style.bodyFontSize)
        bodyMetrics == calculateWrappedTextHeight(ctxB, body, style.contentWidth,
                                                  style.bodyLineHeight)
        ctaBlockHeight == ctaBlockHeightOf(ctaText, style.bodyFontSize)
        totalContentHeight ==
            totalContentHeightOf(headlineMetrics, bodyMetrics, style, ctaText, ctaBlockHeight)
        rectHeight     == totalContentHeight + (style.padding * 2)
        safeRectY      == safeRectYOf(height, rectHeight)
        safeRectHeight == height - safeRectY
        panel          == fillRect(0, safeRectY, Unit * width, safeRectHeight, "rgba(0, 0, 0, 0.65)")
        headlineY      == safeRectY + style.padding
        headlineOps    == drawWrappedText(ctxH, headlineMetrics.lines, (Unit * width) \div 2,
                                          headlineY, style.headlineLineHeight)
        afterHeadline  == headlineY + headlineMetrics.height
        bodyY          == afterHeadline + style.spacing
        bodyOps        == IF bodyMetrics.height > 0
                          THEN drawWrappedText(ctxB, bodyMetrics.lines, (Unit * width) \div 2,
                                               bodyY, style.bodyLineHeight)
                          ELSE <<>>
        afterBody      == IF bodyMetrics.height > 0 THEN bodyY + bodyMetrics.height
                          ELSE afterHeadline
        naturalCtaY    == afterBody + style.padding
        ctaY           == ctaYOf(naturalCtaY, ctaBlockHeight, height, style.padding)
        ctxC           == setFont(ctxB, 700, ctaFontSizeOf(style.bodyFontSize))
        ctaMetrics     == measureText(ctxC, ctaText[1])
        ctaButtonWidth == ctaMetrics.width + (style.padding * 2)
        ctaButtonX     == ctaButtonXOf(Unit * width, ctaButtonWidth)
        ctaOps         == IF ctaBlockHeight > 0
                          THEN << fillRect(ctaButtonX, ctaY, ctaButtonWidth, ctaBlockHeight, "#bb86fc"),
                                  [ op |-> "fillText", text |-> ctaText[1],
                                    x |-> (Unit * width) \div 2, y |-> ctaY + ctaBlockHeight \div 2,
                                    font |-> ctxC.font, fillStyle |-> "#121212",
                                    textBaseline |-> "middle", w |-> 0, h |-> 0 ] >>
                          ELSE <<>>
    IN  [ width  |-> width,
          height |-> baseImage.height,
          base   |-> baseImage,
          ops    |-> <<panel>> \o headlineOps \o bodyOps \o ctaOps,
          locals |-> [ style |-> style, headlineMetrics |-> headlineMetrics,
                       bodyMetrics |-> bodyMetrics, ctaBlockHeight |-> ctaBlockHeight,
                       totalContentHeight |-> totalContentHeight ] ]

(* Mutant: the CTA text is read from the module-level state instead of the
   argument. *)
renderTextOnImage_readsState(baseImage, headline, body, ctaText) ==
    IF baseImage.decodes
    THEN [status |-> "resolved", canvas |-> renderOnload(baseImage, headline, body, <<state.ctaText>>)]
    ELSE [status |-> "rejected"]

(* renderTextOnImage as a function of what it is given: the promise's outcome. *)
renderTextOnImage(baseImage, headline, body, ctaText) ==
    IF baseImage.decodes
    THEN [status |-> "resolved", canvas |-> renderOnload(baseImage, headline, body, ctaText)]
    ELSE [status |-> "rejected"]

----------------------------------------------------------------------------
(* compositeImageWithLogo.  The logo rectangle is a rational: x, y, w, h are
   numerators over the common denominator den == 20 * logoImage.width, in px. *)

(* Mutant: an unrecognized position falls to the first case. *)
logoXY_defaultTopLeft(position, canvasWidth, canvasHeight, logoWidth, logoHeight, padding) ==
    CASE position = "top-right" ->
             [x |-> canvasWidth - logoWidth - padding, y |-> padding]
      [] position = "bottom-left" ->
             [x |-> padding, y |-> canvasHeight - logoHeight - padding]
      [] position = "bottom-right" ->
             [x |-> canvasWidth - logoWidth - padding, y |-> canvasHeight - logoHeight - padding]
      [] OTHER ->
             [x |-> padding, y |-> padding]

(* switch (position) *)
logoXY(position, canvasWidth, canvasHeight, logoWidth, logoHeight, padding) ==
    CASE position = "top-left" ->
             [x |-> padding, y |-> padding]
      [] position = "top-right" ->
             [x |-> canvasWidth - logoWidth - padding, y |-> padding]
      [] position = "bottom-left" ->
             [x |-> padding, y |-> canvasHeight - logoHeight - padding]
      [] OTHER ->
             [x |-> canvasWidth - logoWidth - padding, y |-> canvasHeight - logoHeight - padding]

(* The body of logoImage.onload. *)
logoOnload(baseImage, logoImage, position) ==
    LET den        == 20 * logoImage.width
        padding    == baseImage.width * logoImage.width       \* canvas.width * 0.05
        logoWidth  == 4 * baseImage.width * logoImage.width   \* canvas.width * 0.2
        logoHeight == 4 * logoImage.height * baseImage.width  \* logoImage.height * scale
        at         == logoXY(position, den * baseImage.width, den * baseImage.height,
                             logoWidth, logoHeight, padding)
    IN  [ width  |-> baseImage.width,
          height |-> baseImage.height,
          base   |-> baseImage,
          ops    |-> << [ op |-> "drawImage", image |-> logoImage, globalAlpha |-> 9,
                          x |-> at.x, y |-> at.y, w |-> logoWidth, h |-> logoHeight,
                          den |-> den ] >> ]

(* compositeImageWithLogo as a function of what it is given. *)
compositeImageWithLogo(baseImage, logoImage, position) ==
    IF baseImage.decodes /\ logoImage.decodes
    THEN [status |-> "resolved", canvas |-> logoOnload(baseImage, logoImage, position)]
    ELSE [status |-> "rejected"]

----------------------------------------------------------------------------
(* Specification of a single compositor call: the arguments are drawn in the
   initial state; the call starts loading the base image and settles in its
   onload or onerror handler. *)

ab == <<"a", "b">>
ba == <<"b", "a">>

Headlines == { <<>>, ab, join(<<ab, ab, ab>>), ab \o ab \o ab \o ab }

Bodies == { <<>>, <<" ">>, ba, join(<<ba, ba, ba, ba, ba>>) }

CtaTexts == { <<>>, << <<>> >>, << <<" ">> >>, << ab >>, << join(<<ab, ab, ab, ab, ab>>) >> }

ImageWidths == {100, 500, 1000, 1080}

ImageHeights == {60, 125, 130, 500, 1000, 1920}

BaseImages ==
    { [decodes |-> TRUE, width |-> w, height |-> h] : w \in ImageWidths, h \in ImageHeights }
      \cup { [decodes |-> FALSE, width |-> 0, height |-> 0] }

RenderCalls ==
    { [fn |-> "renderTextOnImage", baseImage |-> i, headline |-> hl, body |-> b, ctaText |-> c] :
         i \in BaseImages, hl \in Headlines, b \in Bodies, c \in CtaTexts }

LogoImages ==
    { [decodes |-> TRUE, width |-> 100, height |-> 50],
      [decodes |-> TRUE, width |-> 64, height |-> 64],
      [decodes |-> TRUE, width |-> 30, height |-> 70],
      [decodes |-> FALSE, width |-> 0, height |-> 0] }

(* AppState['logoPosition'], and a value outside the type. *)
LogoPositions == {"top-right", "bottom-right", "top-left", "bottom-left", "center"}

LogoCalls ==
    { [fn |-> "compositeImageWithLogo", baseImage |-> i, logoFile |-> l, position |-> p] :
         i \in BaseImages, l \in LogoImages, p \in LogoPositions }

InitLayout ==
    /\ glyphs \in GlyphTables
    /\ call \in RenderCalls \cup LogoCalls
    /\ state = InitialState
    /\ calls = <<>>
    /\ callPc = "Idle"
    /\ callOut = [ops |-> <<>>]
    /\ wrapArgs = [text |-> <<>>]
    /\ wrapOut = [lines |-> <<>>, height |-> 0]
    /\ wrapPc = "unused"
    /\ callTrace = <<"Idle">>
    /\ gen = NoGenerate
    /\ regen = NoInvocation
    /\ upd = NoInvocation
    /\ imageGen = NoInvocation
    /\ now = 0

(* renderTextOnImage up to baseImage.src = baseImageUrl, the 2D context
   obtained. *)
RenderStart ==
    /\ call.fn = "renderTextOnImage"
    /\ callPc = "Idle"
    /\ callPc' = "ImageLoading"
    /\ callTrace' = Append(callTrace, "ImageLoading")
    /\ UNCHANGED <<glyphs, call, callOut, wrapVars, appVars, taskVars>>

(* if (!ctx) return reject(...): canvas.getContext('2d') gave null. *)
RenderNoContext ==
    /\ call.fn = "renderTextOnImage"
    /\ callPc = "Idle"
    /\ callPc' = "Failed"
    /\ callTrace' = Append(callTrace, "Failed")
    /\ UNCHANGED <<glyphs, call, callOut, wrapVars, appVars, taskVars>>

(* Mutant: onload runs for an image that did not decode. *)
RenderOnload_anyImage ==
    /\ call.fn = "renderTextOnImage"
    /\ callPc = "ImageLoading"
    /\ callOut' = renderOnload(call.baseImage, call.headline, call.body, call.ctaText)
    /\ callPc' = "Encoded"
    /\ callTrace' = callTrace \o <<"Drawing", "Encoded">>
    /\ UNCHANGED <<glyphs, call, wrapVars, appVars, taskVars>>

(* baseImage.onload: draw, then resolve with the encoded canvas. *)
RenderOnload ==
    /\ call.fn = "renderTextOnImage"
    /\ callPc = "ImageLoading"
    /\ call.baseImage.decodes
    /\ callOut' = renderTextOnImage(call.baseImage, call.headline,
                                    call.body, call.ctaText).canvas
    /\ callPc' = "Encoded"
    /\ callTrace' = callTrace \o <<"Drawing", "Encoded">>
    /\ UNCHANGED <<glyphs, call, wrapVars, appVars, taskVars>>

(* baseImage.onerror: reject. *)
RenderOnerror ==
    /\ call.fn = "renderTextOnImage"
    /\ callPc = "ImageLoading"
    /\ ~call.baseImage.decodes
    /\ callPc' = "Failed"
    /\ callTrace' = Append(callTrace, "Failed")
    /\ UNCHANGED <<glyphs, call, callOut, wrapVars, appVars, taskVars>>

(* compositeImageWithLogo up to baseImage.src = baseImageUrl, the 2D context
   obtained. *)
LogoStart ==
    /\ call.fn = "compositeImageWithLogo"
    /\ callPc = "Idle"
    /\ callPc' = "ImageLoading"
    /\ callTrace' = Append(callTrace, "ImageLoading")
    /\ UNCHANGED <<glyphs, call, callOut, wrapVars, appVars, taskVars>>

(* if (!ctx) return reject(...) *)
LogoNoContext ==
    /\ call.fn = "compositeImageWithLogo"
    /\ callPc = "Idle"
    /\ callPc' = "Failed"
    /\ callTrace' = Append(callTrace, "Failed")
    /\ UNCHANGED <<glyphs, call, callOut, wrapVars, appVars, taskVars>>

(* baseImage.onload: size the canvas, create the logo's object URL and start
   loading the logo from it. *)
LogoBaseOnload ==
    /\ call.fn = "compositeImageWithLogo"
    /\ callPc = "ImageLoading"
    /\ call.baseImage.decodes
    /\ callPc' = "LogoLoading"
    /\ callTrace' = callTrace \o <<"createObjectURL", "LogoLoading">>
    /\ UNCHANGED <<glyphs, call, callOut, wrapVars, appVars, taskVars>>

(* baseImage.onerror: reject. *)
LogoBaseOnerror ==
    /\ call.fn = "compositeImageWithLogo"
    /\ callPc = "ImageLoading"
    /\ ~call.baseImage.decodes
    /\ callPc' = "Failed"
    /\ callTrace' = Append(callTrace, "Failed")
    /\ UNCHANGED <<glyphs, call, callOut, wrapVars, appVars, taskVars>>

(* logoImage.onload: draw the logo, revoke the object URL and resolve. *)
LogoOnload ==
    /\ call.fn = "compositeImageWithLogo"
    /\ callPc = "LogoLoading"
    /\ call.logoFile.decodes
    /\ callOut' = compositeImageWithLogo(call.baseImage, call.logoFile, call.position).canvas
    /\ callPc' = "Encoded"
    /\ callTrace' = callTrace \o <<"Drawing", "revokeObjectURL", "Encoded">>
    /\ UNCHANGED <<glyphs, call, wrapVars, appVars, taskVars>>

(* Mutant: the error handler rejects without revoking. *)
LogoOnerror_noRevoke ==
    /\ call.fn = "compositeImageWithLogo"
    /\ callPc = "LogoLoading"
    /\ ~call.logoFile.decodes
    /\ callPc' = "Failed"
    /\ callTrace' = Append(callTrace, "Failed")
    /\ UNCHANGED <<glyphs, call, callOut, wrapVars, appVars, taskVars>>

(* logoImage.onerror: revoke the object URL and reject. *)
LogoOnerror ==
    /\ call.fn = "compositeImageWithLogo"
    /\ callPc = "LogoLoading"
    /\ ~call.logoFile.decodes
    /\ callPc' = "Failed"
    /\ callTrace' = callTrace \o <<"revokeObjectURL", "Failed">>
    /\ UNCHANGED <<glyphs, call, callOut, wrapVars, appVars, taskVars>>

NextLayout ==
    \/ RenderStart \/ RenderNoContext \/ RenderOnload \/ RenderOnerror
    \/ LogoStart \/ LogoNoContext \/ LogoBaseOnload \/ LogoBaseOnerror
    \/ LogoOnload \/ LogoOnerror

SpecLayout == InitLayout /\ [][NextLayout]_vars

----------------------------------------------------------------------------
(* Specification of the compositor under its callers: calls start at any
   time, several may be waiting for their image at once, and the form fields
   of the module-level state change in between. *)

MaxCalls == 2

ComposeImages ==
    { [decodes |-> TRUE, width |-> 100, height |-> 125],
      [decodes |-> FALSE, width |-> 0, height |-> 0] }

ComposeCtaTexts == { <<>>, ab }

ComposeRenderCalls ==
    { [fn |-> "renderTextOnImage", baseImage |-> i, headline |-> hl, body |-> ba,
       ctaText |-> <<c>>] :
         i \in ComposeImages, hl \in {ab, join(<<ab, ab, ab>>)}, c \in ComposeCtaTexts }

ComposeLogoCalls ==
    { [fn |-> "compositeImageWithLogo", baseImage |-> i,
       logoFile |-> [decodes |-> TRUE, width |-> 100, height |-> 50],
       position |-> "top-left"] : i \in ComposeImages }

InitCompose ==
    /\ glyphs \in GlyphTables
    /\ state = InitialState
    /\ calls = <<>>
    /\ call = [fn |-> "none"]
    /\ callPc = "Idle"
    /\ callOut = [ops |-> <<>>]
    /\ wrapArgs = [text |-> <<>>]
    /\ wrapOut = [lines |-> <<>>, height |-> 0]
    /\ wrapPc = "unused"
    /\ callTrace = <<"Idle">>
    /\ gen = NoGenerate
    /\ regen = NoInvocation
    /\ upd = NoInvocation
    /\ imageGen = NoInvocation
    /\ now = 0

(* syncFormState: state = { ...state, [name]: value } *)
syncFormState(name, value) ==
    /\ state' = [state EXCEPT ![name] = value]
    /\ UNCHANGED <<calls, wrapVars, callVars, envVars, taskVars>>

SyncCtaText == \E v \in ComposeCtaTexts : v # state.ctaText /\ syncFormState("ctaText", v)

SyncLogoPosition ==
    \E v \in {"top-left", "bottom-right"} :
        v # state.logoPosition /\ syncFormState("logoPosition", v)

(* A caller invokes a compositor function: the promise is created and the
   base image starts loading. *)
StartCall ==
    /\ Len(calls) < MaxCalls
    /\ \E c \in ComposeRenderCalls \cup ComposeLogoCalls :
          calls' = Append(calls, [args |-> c, pc |-> "ImageLoading",
                                  result |-> [status |-> "pending"], ctaTextSeen |-> <<>>])
    /\ UNCHANGED <<state, wrapVars, callVars, envVars, taskVars>>

(* baseImage.onload of call k (followed, for a logo call, by logoImage.onload
   of a logo that decodes): the drawing runs to the end and the promise
   resolves. *)
OnloadCall ==
    \E k \in 1..Len(calls) :
        /\ calls[k].pc = "ImageLoading"
        /\ calls[k].args.baseImage.decodes
        /\ LET a == calls[k].args
               r == IF a.fn = "renderTextOnImage"
                    THEN renderTextOnImage(a.baseImage, a.headline, a.body, a.ctaText)
                    ELSE compositeImageWithLogo(a.baseImage, a.logoFile, a.position)
           IN  calls' = [calls EXCEPT ![k] = [args |-> a, pc |-> "Encoded", result |-> r,
                                              ctaTextSeen |-> state.ctaText]]
        /\ UNCHANGED <<state, wrapVars, callVars, envVars, taskVars>>

(* baseImage.onerror of call k: the promise rejects. *)
OnerrorCall ==
    \E k \in 1..Len(calls) :
        /\ calls[k].pc = "ImageLoading"
        /\ ~calls[k].args.baseImage.decodes
        /\ calls' = [calls EXCEPT ![k] = [args |-> calls[k].args, pc |-> "Failed",
                                          result |-> [status |-> "rejected"],
                                          ctaTextSeen |-> state.ctaText]]
        /\ UNCHANGED <<state, wrapVars, callVars, envVars, taskVars>>

NextCompose == SyncCtaText \/ SyncLogoPosition \/ StartCall \/ OnloadCall \/ OnerrorCall

SpecCompose == InitCompose /\ [][NextCompose]_vars

----------------------------------------------------------------------------
(* The application: the module-level state, the handlers renderApp attaches to
   the controls it renders, and the answers of the generative service.  A
   handler runs to its next await in one step; what follows an await runs in
   the step that settles the awaited promise.  A control can be used when the
   last render drew it enabled; every setState renders, so that is decided by
   the current state. *)

Null == <<>>

Photo == [decodes |-> TRUE, width |-> 100, height |-> 125]

SavedPhoto == [decodes |-> TRUE, width |-> 100, height |-> 60]

Broken == [decodes |-> FALSE, width |-> 0, height |-> 0]

LogoFile == [decodes |-> TRUE, width |-> 100, height |-> 50]

(* What reading a field of {...null} gives. *)
undefined == "undefined"

(* An image source of undefined: nothing loads from it. *)
undefinedUrl == [decodes |-> FALSE, width |-> 0, height |-> 0, undefined |-> TRUE]

(* canvas.toDataURL('image/jpeg', 0.9): an image of the canvas's size showing
   what was drawn. *)
toDataURL(canvas) ==
    [ decodes |-> TRUE, width |-> canvas.width, height |-> canvas.height,
      pixels |-> [base |-> canvas.base, ops |-> canvas.ops] ]

(* state = { ...state, ...newState } *)
setState(s, newState) ==
    [k \in DOMAIN s |-> IF k \in DOMAIN newState THEN newState[k] ELSE s[k]]

ErrRequired == "Por favor, preencha todos os campos obrigatorios."

ErrGenerate == "Ocorreu um erro ao gerar o criativo."

ErrRegenerate == "Nao foi possivel gerar uma nova copy. Tente novamente."

ErrUpdate == "Falha ao atualizar o criativo."

Option1 == [headline |-> ab, body |-> ba]

Option2 == [headline |-> ba, body |-> ab]

(* JSON.stringify(value) *)
JSONstringify(value) == [json |-> TRUE, of |-> value]

(* copyResponse.text: text that is not JSON, or the JSON of an object with a
   copyOptions array. *)
CopyResponses ==
    { [json |-> FALSE] } \cup
    { JSONstringify([copyOptions |-> o]) : o \in { <<>>, <<Option2, Option1>> } }

(* The image bytes of a generateImages response, as the data URL made of them. *)
ImageResponses == { Photo, Broken }

Pending == [status |-> "pending"]

NotIssued == [status |-> "notIssued"]

Rejected == [status |-> "rejected"]

Resolved(v) == [status |-> "resolved", value |-> v]

(* The outcomes of a call to the generative service. *)
CopyOutcomes == { Rejected } \cup { Resolved(r) : r \in CopyResponses }

ImageOutcomes == { Rejected } \cup { Resolved(i) : i \in ImageResponses }

(* What localStorage holds at start: creatives and images saved in earlier
   sessions. *)
StoredCreative(id, base) ==
    [ id |-> id, baseImageUrlWithLogo |-> base,
      finalImageUrl |-> toDataURL(renderTextOnImage(base, ab, ba, << <<>> >>).canvas),
      headline |-> ab, body |-> ba, ctaText |-> << <<>> >>, prompt |-> "p", rating |-> 0 ]

StoredImage == [id |-> "savedimg-1", url |-> SavedPhoto, prompt |-> "s"]

AppGlyphs == [c \in Chars |-> 5]

MaxSaves == 1

StoredCreatives == <<StoredCreative(1, Photo), StoredCreative(2, SavedPhoto)>>

(* The state after the module has loaded, localStorage holding the given
   creatives and images. *)
InitFrom(creatives, images) ==
    /\ glyphs = AppGlyphs
    /\ state = setState(InitialState, [savedCreatives |-> creatives, savedImages |-> images])
    /\ gen = NoGenerate
    /\ regen = NoInvocation
    /\ upd = NoInvocation
    /\ imageGen = NoInvocation
    /\ now = 2
    /\ calls = <<>>
    /\ call = [fn |-> "none"]
    /\ callPc = "Idle"
    /\ callOut = [ops |-> <<>>]
    /\ callTrace = <<"Idle">>
    /\ wrapArgs = [text |-> <<>>]
    /\ wrapOut = [lines |-> <<>>, height |-> 0]
    /\ wrapPc = "unused"

(* Everything the application's handlers leave alone. *)
restVars == <<wrapVars, callVars, calls, callTrace, imageGen>>

(* renderEditModal's overlay lies over the page while editingCreative is set. *)
ModalOpen == state.editingCreative # Null

(* The controls of renderCreativeGeneratorTab can be used. *)
OnCreativeTab == state.activeTab = "creative" /\ ~ModalOpen

(* renderResults draws the generated creative and its buttons. *)
ResultsShown ==
    /\ OnCreativeTab
    /\ ~state.isLoading
    /\ state.error = Null
    /\ state.generatedCreative # Null

(* JSON.parse(copyResponse.text): the value, or a SyntaxError thrown. *)
JSONparse(text) ==
    IF text.json THEN [threw |-> FALSE, value |-> text.of] ELSE [threw |-> TRUE]

(* Mutant: the catch block shows the error and leaves the loader on. *)
generateCatch_keepsLoading(s, g) ==
    [ state |-> setState(s, [error |-> <<ErrGenerate>>]),
      gen   |-> [pc |-> "idle", issued |-> g.issued] ]

(* catch (err) of handleGenerate *)
generateCatch(s, g) ==
    [ state |-> setState(s, [isLoading |-> FALSE, error |-> <<ErrGenerate>>]),
      gen   |-> [pc |-> "idle", issued |-> g.issued] ]

(* Mutant: the composites are stored in the reverse of the options' order. *)
generateCommit_reversed(s, g) ==
    [ state |-> setState(s,
         [ isLoading |-> FALSE,
           generatedCreative |->
              << [ copyOptions |-> g.options,
                   baseImageUrlWithLogo |-> g.imageUrl,
                   compositeImageUrls |->
                      [i \in 1..Len(g.slots) |-> g.slots[Len(g.slots) + 1 - i].value],
                   selectedIndex |-> 0,
                   imagePrompt |-> g.finalImagePrompt,
                   campaignDescription |-> g.args.campaignDescription,
                   ctaText |-> <<g.args.ctaText>> ] >> ]),
      gen   |-> [pc |-> "idle", issued |-> g.issued] ]

(* The setState that ends handleGenerate's try block. *)
generateCommit(s, g) ==
    [ state |-> setState(s,
         [ isLoading |-> FALSE,
           generatedCreative |->
              << [ copyOptions |-> g.options,
                   baseImageUrlWithLogo |-> g.imageUrl,
                   compositeImageUrls |-> [i \in 1..Len(g.slots) |-> g.slots[i].value],
                   selectedIndex |-> 0,
                   imagePrompt |-> g.finalImagePrompt,
                   campaignDescription |-> g.args.campaignDescription,
                   ctaText |-> <<g.args.ctaText>> ] >> ]),
      gen   |-> [pc |-> "idle", issued |-> g.issued] ]

(* parsedCopyResponse.copyOptions.map(renderTextOnImage) and the await of
   Promise.all over the result: with no option there is nothing to wait for. *)
generateRenders(s, g) ==
    LET g1 == [g EXCEPT !.slots = [i \in 1..Len(g.options) |-> Pending]]
    IN  IF g.options = <<>>
        THEN generateCommit(s, g1)
        ELSE [state |-> s, gen |-> [g1 EXCEPT !.pc = "awaitRenders"]]

(* handleGenerate from the end of await Promise.all([copyGenerationPromise,
   imagePromise]) to its next await. *)
generateJoined(s, g) ==
    LET parsedCopyResponse == JSONparse(g.copy.value)
        g1 == [g EXCEPT !.imageUrl = g.image.value,
                        !.options = parsedCopyResponse.value.copyOptions]
    IN  IF parsedCopyResponse.threw
        THEN generateCatch(s, g)
        ELSE IF g.args.logoFile # Null
             THEN [state |-> s, gen |-> [g1 EXCEPT !.pc = "awaitLogo"]]
             ELSE generateRenders(s, g1)

(* Promise.all over the two calls: rejected as soon as one rejects, resolved
   when both have resolved. *)
generateAll(s, g) ==
    IF g.copy.status = "rejected" \/ g.image.status = "rejected"
    THEN generateCatch(s, g)
    ELSE IF g.copy.status = "resolved" /\ g.image.status = "resolved"
         THEN generateJoined(s, g)
         ELSE [state |-> s, gen |-> g]

(* handleGenerate from the submit event to its first await. *)
handleGenerate(s) ==
    LET isUsingSavedImage == s.imageSource = "saved"
        invalid == \/ s.campaignDescription = ""
                   \/ (~isUsingSavedImage /\ s.imagePrompt = "")
                   \/ (isUsingSavedImage /\ s.selectedSavedImageId = Null)
        s1 == setState(s, [isLoading |-> TRUE, generatedCreative |-> Null, error |-> Null])
        found == { i \in 1..Len(s.savedImages) : <<s.savedImages[i].id>> = s.selectedSavedImageId }
        selectedImage == s.savedImages[CHOOSE i \in found : \A j \in found : i <= j]
        g == [ pc |-> "awaitAll", issued |-> {"generateContent"},
               args |-> [ campaignDescription |-> s.campaignDescription, ctaText |-> s.ctaText,
                          logoFile |-> s.logoFile, logoPosition |-> s.logoPosition ],
               hadCreative |-> s.generatedCreative # Null,
               copy |-> Pending, image |-> NotIssued,
               finalImagePrompt |-> s.imagePrompt,
               imageUrl |-> Broken, options |-> <<>>, slots |-> <<>> ]
    IN  IF invalid
        THEN [ state |-> setState(s, [error |-> <<ErrRequired>>]),
               gen |-> NoGenerate ]
        ELSE IF isUsingSavedImage
             THEN IF found = {}
                  THEN generateCatch(s1, g)
                  ELSE generateAll(s1, [g EXCEPT !.finalImagePrompt = selectedImage.prompt,
                                                 !.image = Resolved(selectedImage.url)])
             ELSE generateAll(s1, [g EXCEPT !.image = Pending,
                                            !.issued = {"generateContent", "generateImages"}])

(* The generator form's submit button, drawn disabled while isLoading; the
   form's required fields hold text. *)
HandleGenerate ==
    /\ OnCreativeTab
    /\ ~state.isLoading
    /\ state.campaignDescription # ""
    /\ state.imageSource = "generate" => state.imagePrompt # ""
    /\ LET r == handleGenerate(state)
       IN  state' = r.state /\ gen' = r.gen
    /\ UNCHANGED <<regen, upd, now, restVars>>

(* The text-generation call of handleGenerate settles. *)
GenerateCopySettles ==
    /\ gen.pc = "awaitAll"
    /\ gen.copy.status = "pending"
    /\ \E outcome \in CopyOutcomes :
          LET r == generateAll(state, [gen EXCEPT !.copy = outcome])
          IN  state' = r.state /\ gen' = r.gen
    /\ UNCHANGED <<regen, upd, now, restVars>>

(* The image-generation call of handleGenerate settles. *)
GenerateImageSettles ==
    /\ gen.pc = "awaitAll"
    /\ gen.image.status = "pending"
    /\ \E outcome \in ImageOutcomes :
          LET r == generateAll(state, [gen EXCEPT !.image = outcome])
          IN  state' = r.state /\ gen' = r.gen
    /\ UNCHANGED <<regen, upd, now, restVars>>

(* handleGenerate from the settling of compositeImageWithLogo, whose outcome
   is c, to its next await. *)
generateLogoSettled(s, g, c) ==
    IF c.status = "resolved"
    THEN generateRenders(s, [g EXCEPT !.imageUrl = toDataURL(c.canvas)])
    ELSE generateCatch(s, g)

(* await compositeImageWithLogo(imageUrl, logoFile, logoPosition) settles. *)
GenerateLogoSettles ==
    /\ gen.pc = "awaitLogo"
    /\ \E r \in { generateLogoSettled(state, gen,
                       compositeImageWithLogo(gen.imageUrl, gen.args.logoFile[1],
                                              gen.args.logoPosition)) } :
          state' = r.state /\ gen' = r.gen
    /\ UNCHANGED <<regen, upd, now, restVars>>

(* await Promise.all(compositeImagePromises) when promise i settles with
   outcome c: the first rejection rejects the whole, the last resolution
   resolves it. *)
generateRenderSettled(s, g, i, c) ==
    LET g1 == [g EXCEPT !.slots[i] = Resolved(toDataURL(c.canvas))]
    IN  IF c.status = "rejected"
        THEN generateCatch(s, g)
        ELSE IF \A j \in 1..Len(g1.slots) : g1.slots[j].status = "resolved"
             THEN generateCommit(s, g1)
             ELSE [state |-> s, gen |-> g1]

(* One of the renderTextOnImage promises of handleGenerate settles. *)
GenerateRenderSettles ==
    /\ gen.pc = "awaitRenders"
    /\ \E i \in 1..Len(gen.slots) :
          /\ gen.slots[i].status = "pending"
          /\ \E r \in { generateRenderSettled(state, gen, i,
                             renderTextOnImage(gen.imageUrl, gen.options[i].headline,
                                               gen.options[i].body,
                                               <<gen.args.ctaText>>)) } :
                state' = r.state /\ gen' = r.gen
    /\ UNCHANGED <<regen, upd, now, restVars>>

(* { ...state.generatedCreative }: spreading null gives an object with no
   fields. *)
spreadCreative(generatedCreative) ==
    IF generatedCreative = Null
    THEN [ copyOptions |-> <<>>, baseImageUrlWithLogo |-> undefinedUrl,
           compositeImageUrls |-> <<>>, selectedIndex |-> 0, imagePrompt |-> undefined,
           campaignDescription |-> undefined, ctaText |-> <<>> ]
    ELSE generatedCreative[1]

(* catch (err) of handleRegenerateCopy *)
regenerateCatch(s, g) ==
    [ state |-> setState(s, [isCopyLoading |-> FALSE, error |-> <<ErrRegenerate>>]),
      regen |-> NoInvocation ]

(* The setState that ends handleRegenerateCopy's try block: it spreads the
   generatedCreative of the state at that time. *)
regenerateCommit(s, g) ==
    [ state |-> setState(s,
         [ isCopyLoading |-> FALSE,
           generatedCreative |->
              << [ spreadCreative(s.generatedCreative) EXCEPT
                     !.copyOptions = g.options,
                     !.compositeImageUrls = [i \in 1..Len(g.slots) |-> g.slots[i].value],
                     !.selectedIndex = 0 ] >> ]),
      regen |-> NoInvocation ]

(* handleRegenerateCopy from the click to its first await; the button is
   drawn disabled while isCopyLoading. *)
HandleRegenerateCopy ==
    /\ ResultsShown
    /\ ~state.isCopyLoading
    /\ state' = setState(state, [isCopyLoading |-> TRUE, error |-> Null])
    /\ regen' = [ pc |-> "awaitCopy",
                  args |-> [ campaignDescription |-> state.generatedCreative[1].campaignDescription,
                             baseImageUrlWithLogo |-> state.generatedCreative[1].baseImageUrlWithLogo,
                             ctaText |-> state.generatedCreative[1].ctaText ],
                  options |-> <<>>, slots |-> <<>> ]
    /\ UNCHANGED <<gen, upd, now, restVars>>

(* The text-generation call of handleRegenerateCopy settles; JSON.parse and
   the map over the options follow. *)
RegenerateCopySettles ==
    /\ regen.pc = "awaitCopy"
    /\ \E outcome \in CopyOutcomes :
          LET parsedCopyResponse == JSONparse(outcome.value)
              g1 == [regen EXCEPT !.options = parsedCopyResponse.value.copyOptions,
                                  !.slots = [i \in 1..Len(parsedCopyResponse.value.copyOptions)
                                               |-> Pending]]
              r  == IF outcome.status = "rejected" THEN regenerateCatch(state, regen)
                    ELSE IF parsedCopyResponse.threw THEN regenerateCatch(state, regen)
                    ELSE IF g1.options = <<>> THEN regenerateCommit(state, g1)
                    ELSE [state |-> state, regen |-> [g1 EXCEPT !.pc = "awaitRenders"]]
          IN  state' = r.state /\ regen' = r.regen
    /\ UNCHANGED <<gen, upd, now, restVars>>

(* await Promise.all(newCompositeImagePromises) when promise i settles with
   outcome c. *)
regenerateRenderSettled(s, g, i, c) ==
    LET g1 == [g EXCEPT !.slots[i] = Resolved(toDataURL(c.canvas))]
    IN  IF c.status = "rejected"
        THEN regenerateCatch(s, g)
        ELSE IF \A j \in 1..Len(g1.slots) : g1.slots[j].status = "resolved"
             THEN regenerateCommit(s, g1)
             ELSE [state |-> s, regen |-> g1]

(* One of the renderTextOnImage promises of handleRegenerateCopy settles. *)
RegenerateRenderSettles ==
    /\ regen.pc = "awaitRenders"
    /\ \E i \in 1..Len(regen.slots) :
          /\ regen.slots[i].status = "pending"
          /\ \E r \in { regenerateRenderSettled(state, regen, i,
                             renderTextOnImage(regen.args.baseImageUrlWithLogo,
                                               regen.options[i].headline,
                                               regen.options[i].body,
                                               regen.args.ctaText)) } :
                state' = r.state /\ regen' = r.regen
    /\ UNCHANGED <<gen, upd, now, restVars>>

(* handleSelectCopy(index), from a click on thumbnail index. *)
HandleSelectCopy ==
    /\ ResultsShown
    /\ \E index \in 0..(Len(state.generatedCreative[1].compositeImageUrls) - 1) :
          state' = setState(state,
             [generatedCreative |-> << [state.generatedCreative[1] EXCEPT !.selectedIndex = index] >>])
    /\ UNCHANGED <<gen, regen, upd, now, restVars>>

(* handleSaveCreative; the id is made of Date.now().  With no option at
   selectedIndex the handler throws reading the headline and changes nothing. *)
HandleSaveCreative ==
    /\ ResultsShown
    /\ now < 2 + MaxSaves
    /\ LET generatedCreative == state.generatedCreative[1]
           selectedIndex == generatedCreative.selectedIndex
           newCreative ==
              [ id |-> now + 1,
                baseImageUrlWithLogo |-> generatedCreative.baseImageUrlWithLogo,
                finalImageUrl |-> generatedCreative.compositeImageUrls[selectedIndex + 1],
                headline |-> generatedCreative.copyOptions[selectedIndex + 1].headline,
                body |-> generatedCreative.copyOptions[selectedIndex + 1].body,
                ctaText |-> generatedCreative.ctaText,
                prompt |-> generatedCreative.imagePrompt,
                rating |-> 0 ]
       IN  /\ selectedIndex + 1 <= Len(generatedCreative.copyOptions)
           /\ state' = setState(state,
                 [ savedCreatives |-> Append(state.savedCreatives, newCreative),
                   generatedCreative |-> Null ])
    /\ now' = now + 1
    /\ UNCHANGED <<gen, regen, upd, restVars>>

(* list.filter(item => item.id !== id) *)
filter(list, id) ==
    LET keep(item) == item.id # id
    IN  SelectSeq(list, keep)

(* handleDeleteCreative(id), confirmed. *)
HandleDeleteCreative ==
    /\ OnCreativeTab
    /\ \E k \in 1..Len(state.savedCreatives) :
          LET id == state.savedCreatives[k].id
          IN  state' = setState(state, [savedCreatives |-> filter(state.savedCreatives, id)])
    /\ UNCHANGED <<gen, regen, upd, now, restVars>>

Ratings == {5}

(* handleSetRating(id, rating), from a click on a star. *)
HandleSetRating ==
    /\ OnCreativeTab
    /\ \E k \in 1..Len(state.savedCreatives), rating \in Ratings :
          LET id == state.savedCreatives[k].id
          IN  /\ state.savedCreatives[k].rating # rating
              /\ state' = setState(state,
                    [savedCreatives |->
                        [i \in 1..Len(state.savedCreatives) |->
                            IF state.savedCreatives[i].id = id
                            THEN [state.savedCreatives[i] EXCEPT !.rating = rating]
                            ELSE state.savedCreatives[i]]])
    /\ UNCHANGED <<gen, regen, upd, now, restVars>>

(* handleEditCreative(creative), from the edit button of a saved creative. *)
HandleEditCreative ==
    /\ OnCreativeTab
    /\ \E k \in 1..Len(state.savedCreatives) :
          state' = setState(state, [editingCreative |-> <<state.savedCreatives[k]>>])
    /\ UNCHANGED <<gen, regen, upd, now, restVars>>

(* handleCloseModal, from the close button, the cancel button or the overlay. *)
HandleCloseModal ==
    /\ ModalOpen
    /\ state' = setState(state, [editingCreative |-> Null])
    /\ UNCHANGED <<gen, regen, upd, now, restVars>>

(* What the user has typed into the edit form. *)
EditForms == { [headline |-> ba, body |-> ab, ctaText |-> ab] }

(* Mutant: the modal's submit button is never disabled. *)
HandleUpdateCreative_neverDisabled ==
    /\ ModalOpen
    /\ \E formData \in EditForms :
          upd' = [ pc |-> "awaitRender",
                   updatedHeadline |-> formData.headline,
                   updatedBody |-> formData.body,
                   updatedCta |-> formData.ctaText,
                   baseImageUrl |-> state.editingCreative[1].baseImageUrlWithLogo,
                   submittedFor |-> state.editingCreative[1].id ]
    /\ state' = setState(state, [isLoading |-> TRUE])
    /\ UNCHANGED <<gen, regen, now, restVars>>

(* handleUpdateCreative from the submit event to its await; the modal's
   submit button is drawn disabled while isLoading. *)
HandleUpdateCreative ==
    /\ ModalOpen
    /\ ~state.isLoading
    /\ \E formData \in EditForms :
          upd' = [ pc |-> "awaitRender",
                   updatedHeadline |-> formData.headline,
                   updatedBody |-> formData.body,
                   updatedCta |-> formData.ctaText,
                   baseImageUrl |-> state.editingCreative[1].baseImageUrlWithLogo,
                   submittedFor |-> state.editingCreative[1].id ]
    /\ state' = setState(state, [isLoading |-> TRUE])
    /\ UNCHANGED <<gen, regen, now, restVars>>

(* The renderTextOnImage promise of handleUpdateCreative settles.  The map
   reads state.editingCreative!.id for each saved creative: with the modal
   closed that throws, unless there is no creative to map over. *)
UpdateRenderSettles ==
    /\ upd.pc = "awaitRender"
    /\ LET c == renderTextOnImage(upd.baseImageUrl, upd.updatedHeadline, upd.updatedBody,
                                  <<upd.updatedCta>>)
           threw == state.editingCreative = Null /\ state.savedCreatives # <<>>
           updated ==
              [ i \in 1..Len(state.savedCreatives) |->
                  IF state.savedCreatives[i].id = state.editingCreative[1].id
                  THEN [ state.savedCreatives[i] EXCEPT
                           !.headline = upd.updatedHeadline,
                           !.body = upd.updatedBody,
                           !.ctaText = <<upd.updatedCta>>,
                           !.finalImageUrl = toDataURL(c.canvas) ]
                  ELSE state.savedCreatives[i] ]
       IN  IF c.status = "rejected" \/ threw
           THEN /\ state' = setState(state, [isLoading |-> FALSE, error |-> <<ErrUpdate>>])
                /\ upd' = NoInvocation
           ELSE /\ state' = setState(state, [ savedCreatives |-> updated,
                                              editingCreative |-> Null,
                                              isLoading |-> FALSE ])
                /\ upd' = NoInvocation
    /\ UNCHANGED <<gen, regen, now, restVars>>

(* handleTabClick(tab) *)
HandleTabClick ==
    /\ ~ModalOpen
    /\ \E tab \in {"creative", "image"} :
          tab # state.activeTab /\ state' = setState(state, [activeTab |-> tab])
    /\ UNCHANGED <<gen, regen, upd, now, restVars>>

(* handleImageSourceChange(source): both buttons are drawn disabled while
   isLoading, the second also while there is no saved image. *)
HandleImageSourceChange ==
    /\ OnCreativeTab
    /\ ~state.isLoading
    /\ \E source \in {"generate", "saved"} :
          /\ source # state.imageSource
          /\ source = "saved" => state.savedImages # <<>>
          /\ state' = setState(state, [imageSource |-> source])
    /\ UNCHANGED <<gen, regen, upd, now, restVars>>

(* handleSelectSavedImage(imageId), from a click in the picker. *)
HandleSelectSavedImage ==
    /\ OnCreativeTab
    /\ state.imageSource = "saved"
    /\ \E k \in 1..Len(state.savedImages) :
          /\ state.selectedSavedImageId # <<state.savedImages[k].id>>
          /\ state' = setState(state, [selectedSavedImageId |-> <<state.savedImages[k].id>>])
    /\ UNCHANGED <<gen, regen, upd, now, restVars>>

(* handleDeleteSavedImage(imageId), from the image tab's list. *)
HandleDeleteSavedImage ==
    /\ state.activeTab = "image" /\ ~ModalOpen
    /\ \E k \in 1..Len(state.savedImages) :
          LET imageId == state.savedImages[k].id
          IN  state' = setState(state, [savedImages |-> filter(state.savedImages, imageId)])
    /\ UNCHANGED <<gen, regen, upd, now, restVars>>

(* handleFileChange: a logo file is chosen. *)
HandleFileChange ==
    /\ OnCreativeTab
    /\ state.logoFile = Null
    /\ state' = setState(state, [logoFile |-> <<LogoFile>>])
    /\ UNCHANGED <<gen, regen, upd, now, restVars>>

(* syncFormState on the change event of a field of the generator form:
   state = { ...state, [name]: value }, without a render. *)
SyncGeneratorForm(name, value) ==
    /\ OnCreativeTab
    /\ state[name] # value
    /\ state' = [state EXCEPT ![name] = value]
    /\ UNCHANGED <<gen, regen, upd, now, restVars>>

SyncCampaignDescription == SyncGeneratorForm("campaignDescription", "d")

(* The imagePrompt field is drawn while imageSource is 'generate'. *)
SyncImagePrompt == state.imageSource = "generate" /\ SyncGeneratorForm("imagePrompt", "p")

SyncFormCtaText == \E value \in ComposeCtaTexts : SyncGeneratorForm("ctaText", value)

----------------------------------------------------------------------------
(* The image tab *)

ErrImageRequired == "Por favor, descreva a imagem."

ErrImageGenerate == "Nao foi possivel gerar a imagem."

(* The image tab is drawn and no modal lies over it. *)
OnImageTab == state.activeTab = "image" /\ ~ModalOpen

(* Everything the image tab's handlers leave alone. *)
pageVars == <<gen, regen, upd, wrapVars, callVars, calls, callTrace>>

ImageGenStyles == {"Fotorealista", "Estudio", "Cinematografico", "Preto e Branco", "Fantasia"}

ImageGenFormats == {"1:1", "9:16", "16:9"}

(* The elements of the image generator form that carry the change listener:
   querySelectorAll('input, select') finds the two selects; the textarea
   named imageGenPrompt is neither an input nor a select. *)
ImageFormListeners == {"imageGenStyle", "imageGenFormat"}

(* The values the element named name can take. *)
ImageFormValues(name) ==
    IF name = "imageGenStyle" THEN ImageGenStyles ELSE ImageGenFormats

(* syncFormState on the change event of a select of the image generator
   form. *)
SyncImageForm ==
    /\ OnImageTab
    /\ \E name \in ImageFormListeners :
          \E value \in ImageFormValues(name) :
             /\ state[name] # value
             /\ state' = [state EXCEPT ![name] = value]
    /\ UNCHANGED <<now, imageGen, pageVars>>

(* handleGenerateImage from the submit event to its await. *)
handleGenerateImage(s) ==
    IF s.imageGenPrompt = ""
    THEN [ state |-> setState(s, [imageError |-> <<ErrImageRequired>>]),
           imageGen |-> NoInvocation ]
    ELSE [ state |-> setState(s, [ isImageLoading |-> TRUE, generatedImageUrl |-> Null,
                                   imageError |-> Null ]),
           imageGen |-> [ pc |-> "awaitImage",
                          finalPrompt |-> [style |-> s.imageGenStyle, of |-> s.imageGenPrompt],
                          aspectRatio |-> s.imageGenFormat ] ]

(* The image form's submit button, drawn disabled while isImageLoading. *)
HandleGenerateImage ==
    /\ OnImageTab
    /\ ~state.isImageLoading
    /\ \E r \in { handleGenerateImage(state) } :
          state' = r.state /\ imageGen' = r.imageGen
    /\ UNCHANGED <<now, pageVars>>

(* await ai.models.generateImages(...) settles in handleGenerateImage. *)
GenerateImageOnlySettles ==
    /\ imageGen.pc = "awaitImage"
    /\ \E outcome \in ImageOutcomes :
          state' = IF outcome.status = "rejected"
                   THEN setState(state, [ isImageLoading |-> FALSE,
                                          imageError |-> <<ErrImageGenerate>> ])
                   ELSE setState(state, [ isImageLoading |-> FALSE,
                                          generatedImageUrl |-> <<outcome.value>> ])
    /\ imageGen' = NoInvocation
    /\ UNCHANGED <<now, pageVars>>

(* savedImages.some(img => img.url === url) *)
someUrl(savedImages, url) == \E i \in 1..Len(savedImages) : savedImages[i].url = url

(* handleSaveGeneratedImage at time t. *)
handleSaveGeneratedImage(s, t) ==
    IF s.generatedImageUrl = Null \/ s.imageGenPrompt = ""
    THEN s
    ELSE IF someUrl(s.savedImages, s.generatedImageUrl[1])
         THEN s
         ELSE setState(s, [ savedImages |->
                 Append(s.savedImages, [ id |-> "savedimg-" \o ToString(t),
                                         url |-> s.generatedImageUrl[1],
                                         prompt |-> s.imageGenPrompt ]) ])

(* The save button of renderImageResults: drawn when an image is shown,
   disabled when that image is among the saved ones. *)
HandleSaveGeneratedImage ==
    /\ OnImageTab
    /\ ~state.isImageLoading /\ state.imageError = Null /\ state.generatedImageUrl # Null
    /\ ~someUrl(state.savedImages, state.generatedImageUrl[1])
    /\ now < 2 + MaxSaves
    /\ state' = handleSaveGeneratedImage(state, now + 1)
    /\ now' = now + 1
    /\ UNCHANGED <<imageGen, pageVars>>

(* The image tab with every handler its listeners can start. *)
ImageTabActions ==
    \/ SyncImageForm \/ HandleGenerateImage \/ GenerateImageOnlySettles
    \/ HandleSaveGeneratedImage \/ HandleDeleteSavedImage

----------------------------------------------------------------------------
(* The generator form and what follows its submission. *)
GeneratorActions ==
    \/ SyncCampaignDescription \/ SyncImagePrompt
    \/ HandleGenerate \/ GenerateCopySettles \/ GenerateImageSettles
    \/ GenerateRenderSettles

(* The optional parts of the form: logo and CTA. *)
OptionActions == HandleFileChange \/ SyncFormCtaText \/ GenerateLogoSettles

(* The choice of a saved image as the base. *)
SavedImageActions ==
    \/ HandleImageSourceChange \/ HandleSelectSavedImage \/ HandleDeleteSavedImage

(* The buttons under a generated creative. *)
ResultActions ==
    \/ HandleRegenerateCopy \/ RegenerateCopySettles \/ RegenerateRenderSettles
    \/ HandleSaveCreative

(* The edit modal. *)
EditActions ==
    \/ HandleEditCreative \/ HandleCloseModal
    \/ HandleUpdateCreative \/ UpdateRenderSettles

(* Generation alone, storage holding at most a saved image. *)
InitGenerate == \E images \in { <<>>, <<StoredImage>> } : InitFrom(<<>>, images)

NextGenerate == GeneratorActions \/ OptionActions \/ SavedImageActions \/ HandleTabClick

SpecGenerate == InitGenerate /\ [][NextGenerate]_vars

(* Generation and the buttons under its result, storage empty. *)
InitResults == InitFrom(<<>>, <<>>)

NextResults == GeneratorActions \/ ResultActions \/ HandleSelectCopy \/ SyncFormCtaText

SpecResults == InitResults /\ [][NextResults]_vars

(* The saved creatives and the edit modal, storage holding two creatives. *)
InitEdit == InitFrom(StoredCreatives, <<>>)

NextEdit == EditActions \/ HandleDeleteCreative \/ HandleSetRating

SpecEdit == InitEdit /\ [][NextEdit]_vars

(* The controls that set or wait on isLoading, with those the user may work
   in between, storage empty. *)
InitImage == \E images \in {<<>>, <<StoredImage>>} : InitFrom(<<>>, images)

NextImage == ImageTabActions \/ HandleTabClick

SpecImage == InitImage /\ [][NextImage]_vars

InitApp == InitFrom(<<>>, <<>>)

NextApp ==
    \/ GeneratorActions \/ ResultActions \/ EditActions
    \/ HandleDeleteCreative \/ HandleTabClick

SpecApp == InitApp /\ [][NextApp]_vars



----------------------------------------------------------------------------
(* Properties of calculateWrappedTextHeight *)

WrapDone == wrapPc = "done"

NoDoubleSpace(s) == \A i \in 1..(Len(s) - 1) : ~(s[i] = " " /\ s[i + 1] = " ")

StartsWithSpace(s) == s # <<>> /\ s[1] = " "

(* The wrap of the call's text at another width, same context and line height. *)
WrapAt(w) ==
    calculateWrappedTextHeight(wrapArgs.context, wrapArgs.text, w, wrapArgs.lineHeight)

(* C1 as claimed: for every text without two consecutive spaces (a leading or
   trailing single space included), the returned lines joined with single
   spaces have exactly the space-separated tokens of the text.  Stated on the
   texts that are not whitespace-only, whose result C4 describes. *)
C1_WrapCoverageAsClaimed ==
    (WrapDone /\ NoDoubleSpace(wrapArgs.text) /\ ~IsBlankText(wrapArgs.text))
        => split(join(wrapOut.lines)) = split(wrapArgs.text)

(* C1 amended: for every text that is not whitespace-only and has no two
   consecutive spaces, the joined lines have exactly the tokens of the text
   when the text does not begin with a space, and exactly the tokens after
   the leading empty one when it does: nothing else is dropped, duplicated or
   reordered. *)
C1_WrapCoverage ==
    (WrapDone /\ NoDoubleSpace(wrapArgs.text) /\ ~IsBlankText(wrapArgs.text))
        => split(join(wrapOut.lines)) =
               (IF StartsWithSpace(wrapArgs.text)
                THEN Tail(split(wrapArgs.text))
                ELSE split(wrapArgs.text))

(* A text with a trailing space and several tokens has been wrapped into more
   than one line. *)
C1_Witness ==
    /\ WrapDone
    /\ NoDoubleSpace(wrapArgs.text)
    /\ ~StartsWithSpace(wrapArgs.text)
    /\ Len(split(wrapArgs.text)) >= 2
    /\ Len(wrapOut.lines) >= 2

(* C2: for the text, line height and measure function of the call, no wider
   maxWidth gives more lines than the call's maxWidth gave. *)
C2_WrapMonotonic ==
    WrapDone =>
        \A w \in WrapWidths(wrapArgs.context) :
            w >= wrapArgs.maxWidth => Len(WrapAt(w).lines) <= Len(wrapOut.lines)

(* Some wider maxWidth gives strictly fewer lines than the call's. *)
C2_Witness ==
    /\ WrapDone
    /\ \E w \in WrapWidths(wrapArgs.context) :
          w > wrapArgs.maxWidth /\ Len(WrapAt(w).lines) < Len(wrapOut.lines)

IsSingleToken(line) == Len(split(line)) = 1

(* C3: every returned line measures at most maxWidth or is a single token; a
   text that is one token wider than maxWidth comes back as exactly that one
   line. *)
C3_OverflowOnlySingleToken ==
    WrapDone =>
        /\ \A i \in 1..Len(wrapOut.lines) :
              \/ measureText(wrapArgs.context, wrapOut.lines[i]).width <= wrapArgs.maxWidth
              \/ IsSingleToken(wrapOut.lines[i])
        /\ (/\ ~IsBlankText(wrapArgs.text)
            /\ IsSingleToken(wrapArgs.text)
            /\ measureText(wrapArgs.context, wrapArgs.text).width > wrapArgs.maxWidth)
               => wrapOut.lines = <<wrapArgs.text>>

(* A text of several tokens was wrapped and one of its lines is an over-wide
   single token. *)
C3_Witness ==
    /\ WrapDone
    /\ Len(split(wrapArgs.text)) >= 2
    /\ \E i \in 1..Len(wrapOut.lines) :
          /\ measureText(wrapArgs.context, wrapOut.lines[i]).width > wrapArgs.maxWidth
          /\ IsSingleToken(wrapOut.lines[i])

(* C4: height is lines.length * lineHeight; an empty or whitespace-only text
   gives no lines and height 0; any other text gives at least one line. *)
C4_WrapResultInvariant ==
    WrapDone =>
        /\ wrapOut.height = Len(wrapOut.lines) * wrapArgs.lineHeight
        /\ IsBlankText(wrapArgs.text) => (wrapOut.lines = <<>> /\ wrapOut.height = 0)
        /\ ~IsBlankText(wrapArgs.text) => Len(wrapOut.lines) >= 1

(* A whitespace-only, non-empty text was wrapped. *)
C4_Witness ==
    /\ WrapDone
    /\ wrapArgs.text # <<>>
    /\ IsBlankText(wrapArgs.text)
    /\ wrapOut.lines = <<>>

----------------------------------------------------------------------------
(* Properties of renderTextOnImage *)

RenderEncoded == call.fn = "renderTextOnImage" /\ callPc = "Encoded"

CanvasWidth == Unit * callOut.width

CanvasHeight == Unit * callOut.height

Locals == callOut.locals

Padding == Locals.style.padding

(* The first fillRect: the panel. *)
Panel == callOut.ops[1]

(* The fillRect of the button and the fillText of its label end the list. *)
Button == callOut.ops[Len(callOut.ops) - 1]

NonBlank(s) == \E i \in 1..Len(s) : ~IsWhiteSpace(s[i])

CtaNonBlank == call.ctaText # <<>> /\ NonBlank(call.ctaText[1])

ContentFits == Locals.totalContentHeight + 2 * Padding <= CanvasHeight

(* Where the button would go without the safety check: below the panel's top
   padding, the headline, the body with its spacing, and one padding. *)
NaturalCtaY ==
    Panel.y + Padding + Locals.headlineMetrics.height
      + (IF Len(Locals.bodyMetrics.lines) > 0
         THEN Locals.style.spacing + Locals.bodyMetrics.height ELSE 0)
      + Padding

(* C5: the panel starts at max(0, H - (totalContentHeight + 2*padding)) and
   has height H - panelTop, so it lies in the canvas and ends at its bottom
   edge; content at least as tall as the canvas gives a panel over the whole
   canvas. *)
C5_PanelBounds ==
    RenderEncoded =>
        /\ Panel.op = "fillRect"
        /\ Panel.y = Max(0, CanvasHeight - (Locals.totalContentHeight + 2 * Padding))
        /\ Panel.h = CanvasHeight - Panel.y
        /\ 0 <= Panel.y /\ Panel.y <= CanvasHeight
        /\ Panel.y + Panel.h = CanvasHeight
        /\ Locals.totalContentHeight >= CanvasHeight
              => (Panel.y = 0 /\ Panel.h = CanvasHeight)

(* A render whose content is taller than the canvas. *)
C5_Witness ==
    /\ RenderEncoded
    /\ Locals.totalContentHeight >= CanvasHeight
    /\ Panel.y = 0

(* C6: with a non-blank CTA, a button that would pass the canvas bottom at
   its natural y is drawn with its bottom edge at H - padding/2; otherwise it
   is drawn at its natural y. *)
C6_CtaBottomSafety ==
    (RenderEncoded /\ CtaNonBlank) =>
        /\ Button.op = "fillRect"
        /\ Button.h = Locals.ctaBlockHeight
        /\ IF NaturalCtaY + Locals.ctaBlockHeight > CanvasHeight
           THEN 2 * (Button.y + Button.h) = 2 * CanvasHeight - Padding
           ELSE Button.y = NaturalCtaY

(* A render whose button was repositioned. *)
C6_Witness ==
    /\ RenderEncoded
    /\ CtaNonBlank
    /\ NaturalCtaY + Locals.ctaBlockHeight > CanvasHeight
    /\ Button.y # NaturalCtaY

(* C7: totalContentHeight is the headline height, plus spacing and body
   height when the body has lines, plus padding and button height when the
   CTA is non-blank; with a blank body and no CTA on a canvas the content
   fits, the panel is headline height + 2*padding high. *)
C7_ContentHeight ==
    RenderEncoded =>
        /\ Locals.totalContentHeight =
               Locals.headlineMetrics.height
                 + (IF Len(Locals.bodyMetrics.lines) > 0
                    THEN Locals.style.spacing + Locals.bodyMetrics.height ELSE 0)
                 + (IF CtaNonBlank THEN Padding + Locals.ctaBlockHeight ELSE 0)
        /\ ~NonBlank(call.body) => Locals.bodyMetrics.lines = <<>>
        /\ CtaNonBlank => Locals.ctaBlockHeight = 528 * Locals.style.bodyFontSize
        /\ (~NonBlank(call.body) /\ ~CtaNonBlank /\ ContentFits)
              => Panel.h = Locals.headlineMetrics.height + 2 * Padding

(* A render of a headline alone that fits. *)
C7_Witness ==
    /\ RenderEncoded
    /\ NonBlank(call.headline)
    /\ call.body # <<>> /\ ~NonBlank(call.body)
    /\ ~CtaNonBlank
    /\ ContentFits
    /\ Panel.h = Locals.headlineMetrics.height + 2 * Padding

NumHeadlineLines == Len(Locals.headlineMetrics.lines)

NumBodyLines == Len(Locals.bodyMetrics.lines)

HeadlineOp(i) == callOut.ops[1 + i]

BodyOp(i) == callOut.ops[1 + NumHeadlineLines + i]

CtaFontContext ==
    [font |-> [weight |-> 700, size |-> 11 * Locals.style.bodyFontSize], glyphs |-> glyphs]

(* C8: with non-blank headline, body and CTA and content that fits, the
   headline lines, the body lines and the button are drawn in that order from
   panelTop + padding downwards, as vertically disjoint blocks within the
   panel's vertical extent; the button is the measured CTA text width plus
   2*padding wide and horizontally centred. *)
C8_StackingOrder ==
    (RenderEncoded /\ NonBlank(call.headline) /\ NonBlank(call.body) /\ CtaNonBlank /\ ContentFits) =>
        /\ Len(callOut.ops) = 1 + NumHeadlineLines + NumBodyLines + 2
        /\ \A i \in 1..NumHeadlineLines :
              /\ HeadlineOp(i).op = "fillText"
              /\ HeadlineOp(i).text = Locals.headlineMetrics.lines[i]
              /\ HeadlineOp(i).y = Panel.y + Padding + (i - 1) * Locals.style.headlineLineHeight
        /\ \A i \in 1..NumBodyLines :
              /\ BodyOp(i).op = "fillText"
              /\ BodyOp(i).text = Locals.bodyMetrics.lines[i]
              /\ BodyOp(i).y >= HeadlineOp(NumHeadlineLines).y + Locals.style.headlineLineHeight
              /\ i > 1 => BodyOp(i).y = BodyOp(i - 1).y + Locals.style.bodyLineHeight
        /\ Button.op = "fillRect"
        /\ Button.y >= BodyOp(NumBodyLines).y + Locals.style.bodyLineHeight
        /\ Button.h > 0
        /\ Button.y + Button.h <= Panel.y + Panel.h
        /\ Panel.y <= HeadlineOp(1).y
        /\ Button.w = measureText(CtaFontContext, call.ctaText[1]).width + 2 * Padding
        /\ 2 * Button.x = CanvasWidth - Button.w

(* Headline, body and button drawn on a 1080 x 1920 canvas. *)
C8_Witness ==
    /\ RenderEncoded
    /\ NonBlank(call.headline) /\ NonBlank(call.body) /\ CtaNonBlank /\ ContentFits
    /\ callOut.width = 1080 /\ callOut.height = 1920
    /\ NumHeadlineLines = 1 /\ NumBodyLines = 1

----------------------------------------------------------------------------
(* Properties of compositeImageWithLogo *)

LogoEncoded == call.fn = "compositeImageWithLogo" /\ callPc = "Encoded"

LogoOp == callOut.ops[1]

(* C9: the logo is drawn 20% of the canvas width wide, its height scaled by
   the same factor as its width, at a padding of 5% of the canvas width from
   the two edges the position names, an unrecognized position counting as
   bottom-right; a 100x50 logo at top-left of a 500x500 base is drawn at
   (25, 25), 100 wide and 50 high. *)
C9_LogoGeometry ==
    LogoEncoded =>
        LET den  == LogoOp.den
            W    == den * callOut.width
            H    == den * callOut.height
            left == call.position \in {"top-left", "bottom-left"}
            top  == call.position \in {"top-left", "top-right"}
        IN  /\ 5 * LogoOp.w = W
            /\ LogoOp.h * call.logoFile.width = call.logoFile.height * LogoOp.w
            /\ IF left THEN 20 * LogoOp.x = W ELSE 20 * (W - (LogoOp.x + LogoOp.w)) = W
            /\ IF top THEN 20 * LogoOp.y = W ELSE 20 * (H - (LogoOp.y + LogoOp.h)) = W
            /\ (/\ callOut.width = 500 /\ callOut.height = 500
                /\ call.logoFile.width = 100 /\ call.logoFile.height = 50
                /\ call.position = "top-left")
                  => /\ LogoOp.x = 25 * den /\ LogoOp.y = 25 * den
                     /\ LogoOp.w = 100 * den /\ LogoOp.h = 50 * den

(* A 100x50 logo drawn at top-left of a 500x500 base. *)
C9_Witness ==
    /\ LogoEncoded
    /\ callOut.width = 500 /\ callOut.height = 500
    /\ call.logoFile.width = 100 /\ call.logoFile.height = 50
    /\ call.position = "top-left"
    /\ LogoOp.x = 25 * LogoOp.den

----------------------------------------------------------------------------
(* Properties of the compositor under its callers *)

Settled(k) == calls[k].pc \in {"Encoded", "Failed"}

IsRender(k) == calls[k].args.fn = "renderTextOnImage"

(* C10: two renderTextOnImage calls given the same base image, headline, body
   and CTA text settle with the same outcome (the same panel, text lines and
   button), whatever calls ran and whatever the module-level state became in
   between. *)
C10_RenderDeterministic ==
    \A i, j \in 1..Len(calls) :
        (IsRender(i) /\ IsRender(j) /\ Settled(i) /\ Settled(j)
           /\ calls[i].args = calls[j].args)
            => calls[i].result = calls[j].result

(* Two renders of the same arguments with a CTA, drawn while the form's
   ctaText had different values. *)
C10_Witness ==
    \E i, j \in 1..Len(calls) :
        /\ i < j
        /\ IsRender(i) /\ IsRender(j)
        /\ calls[i].pc = "Encoded" /\ calls[j].pc = "Encoded"
        /\ calls[i].args = calls[j].args
        /\ calls[i].args.ctaText = <<ab>>
        /\ calls[i].ctaTextSeen # calls[j].ctaTextSeen
        /\ calls[i].result = calls[j].result

----------------------------------------------------------------------------
(* Properties of one compositor call as a state machine *)

IsPrefix(p, t) == Len(p) <= Len(t) /\ SubSeq(t, 1, Len(p)) = p

Count(event) == Cardinality({ i \in 1..Len(callTrace) : callTrace[i] = event })

IsRenderCall == call.fn = "renderTextOnImage"

IsLogoCall == call.fn = "compositeImageWithLogo"

RenderPathsAsClaimed ==
    { <<"Idle", "ImageLoading", "Drawing", "Encoded">>,
      <<"Idle", "ImageLoading", "Failed">> }

(* C15: every object URL compositeImageWithLogo creates is revoked, once,
   before the promise settles, whether it resolves or rejects; a call that
   settles without having created one (no 2D context, base image not decoded)
   revokes nothing. *)
C15_LogoUrlCleanup ==
    IsLogoCall =>
        /\ Count("createObjectURL") <= 1
        /\ Count("revokeObjectURL") <= Count("createObjectURL")
        /\ \A i, j \in 1..Len(callTrace) :
              (callTrace[i] = "createObjectURL" /\ callTrace[j] = "revokeObjectURL") => i < j
        /\ callPc \in {"Encoded", "Failed"}
              => /\ Count("revokeObjectURL") = Count("createObjectURL")
                 /\ callTrace[Len(callTrace)] = callPc
                 /\ Count("Encoded") + Count("Failed") = 1
        /\ callPc = "Encoded" => Count("createObjectURL") = 1

(* A logo that failed to decode: its URL was created, revoked, and the call
   rejected. *)
C15_Witness ==
    /\ IsLogoCall
    /\ callPc = "Failed"
    /\ ~call.logoFile.decodes
    /\ Count("createObjectURL") = 1
    /\ Count("revokeObjectURL") = 1

(* C17 as claimed: a renderTextOnImage call only ever follows
   Idle -> ImageLoading -> Drawing -> Encoded or Idle -> ImageLoading -> Failed. *)
C17_StateMachineAsClaimed ==
    IsRenderCall => \E t \in RenderPathsAsClaimed : IsPrefix(callTrace, t)

(* C17: a renderTextOnImage call follows Idle -> ImageLoading -> Drawing ->
   Encoded, Idle -> ImageLoading -> Failed, or Idle -> Failed when no 2D
   context can be had; it settles at most once, an image that fails to decode
   never gives Encoded nor any drawing, and drawing happens only after the
   image has loaded. *)
C17_StateMachine ==
    IsRenderCall =>
        /\ \E t \in RenderPathsAsClaimed \cup { <<"Idle", "Failed">> } : IsPrefix(callTrace, t)
        /\ callTrace[Len(callTrace)] = callPc
        /\ Count("Encoded") + Count("Failed") <= 1
        /\ ~call.baseImage.decodes
              => (callPc # "Encoded" /\ Count("Drawing") = 0 /\ callOut.ops = <<>>)
        /\ callOut.ops # <<>> => (callPc = "Encoded" /\ Count("ImageLoading") = 1)

(* A call rejected for want of a 2D context, before any image load. *)
C17_Witness ==
    /\ IsRenderCall
    /\ callTrace = <<"Idle", "Failed">>
    /\ callPc = "Failed"

(* Offset between the panel top and the first headline line. *)
HeadlineOffset == HeadlineOp(1).y - Panel.y

(* Where the text ends: below the top padding, the headline and the body
   with its spacing. *)
TextBottom == NaturalCtaY - Padding

(* C18 as claimed: when the content overflows the canvas the panel starts at
   the top, the first headline line is less than padding below it, and no
   text passes the canvas bottom while any top padding is left. *)
C18_TopPaddingAsClaimed ==
    (RenderEncoded /\ NumHeadlineLines > 0 /\ ~ContentFits) =>
        /\ Panel.y = 0
        /\ HeadlineOffset < Padding
        /\ TextBottom > CanvasHeight => HeadlineOffset <= 0

(* C18: when the content overflows the canvas the panel starts at the top and
   the first headline line is still drawn a full padding below it; what is
   given up is the room below the content, which is less than padding. *)
C18_TopPaddingKept ==
    (RenderEncoded /\ NumHeadlineLines > 0 /\ ~ContentFits) =>
        /\ Panel.y = 0
        /\ HeadlineOffset = Padding
        /\ CanvasHeight - (HeadlineOp(1).y + Locals.totalContentHeight) < Padding

(* Text drawn past the canvas bottom under a full top padding. *)
C18_Witness ==
    /\ RenderEncoded
    /\ NumHeadlineLines > 0
    /\ ~ContentFits
    /\ TextBottom > CanvasHeight
    /\ HeadlineOffset = Padding

----------------------------------------------------------------------------
(* Properties of the application's handlers *)

(* A step of handleGenerate: the submit or the settling of something it
   awaits. *)
GenerateStep ==
    \/ HandleGenerate \/ GenerateCopySettles \/ GenerateImageSettles
    \/ GenerateLogoSettles \/ GenerateRenderSettles

(* A step in which handleGenerate ends in its catch block. *)
GenerateFails ==
    /\ GenerateStep
    /\ gen'.pc = "idle"
    /\ state'.error = <<ErrGenerate>>

(* A step in which handleGenerate ends with its result. *)
GenerateCommits ==
    /\ GenerateStep
    /\ gen.pc # "idle"
    /\ gen'.pc = "idle"
    /\ state'.error # <<ErrGenerate>>

(* C11: while handleGenerate waits for its two calls both have been started;
   it composites only after both have resolved; a step in which it fails
   leaves isLoading false and the error set, writes no creative, and no step
   of it touches savedCreatives or savedImages; the only creative it ever
   writes is the complete one, with a composite for every option. *)
C11_ForkJoinAllOrNothing ==
    /\ [](/\ gen.pc = "awaitAll"
             => (gen.copy.status # "notIssued" /\ gen.image.status # "notIssued")
          /\ gen.pc \in {"awaitLogo", "awaitRenders"}
             => (gen.copy.status = "resolved" /\ gen.image.status = "resolved")
          /\ gen.pc # "idle" => (state.isLoading /\ state.generatedCreative = Null))
    /\ [][/\ GenerateStep
             => /\ state'.savedCreatives = state.savedCreatives
                /\ state'.savedImages = state.savedImages
          /\ GenerateFails
             => /\ ~state'.isLoading
                /\ state'.generatedCreative = Null
          /\ (GenerateStep /\ state'.generatedCreative # Null
                /\ state'.generatedCreative # state.generatedCreative)
             => /\ GenerateCommits
                /\ ~state'.isLoading
                /\ Len(state'.generatedCreative[1].compositeImageUrls)
                      = Len(state'.generatedCreative[1].copyOptions)]_vars

(* handleGenerate has failed after both calls were made: the loader is off,
   the error is shown and there is no creative. *)
C11_Witness ==
    /\ gen.pc = "idle"
    /\ gen.issued = {"generateContent", "generateImages"}
    /\ ~state.isLoading
    /\ state.error = <<ErrGenerate>>
    /\ state.generatedCreative = Null

(* C12: while a handleGenerate is in flight isLoading is true, whatever the
   user does in between, and a handleGenerate only ever starts when none is
   in flight. *)
C12_SerializedGeneration ==
    /\ [](gen.pc # "idle" => state.isLoading)
    /\ [][HandleGenerate => (gen.pc = "idle" /\ ~state.isLoading)]_vars

(* A generation in flight with a regeneration in flight and the edit modal
   open over a saved creative. *)
C12_Witness ==
    /\ gen.pc # "idle"
    /\ regen.pc # "idle"
    /\ ModalOpen
    /\ state.isLoading

(* The form asks for a saved image that savedImages does not hold. *)
MissingSavedImage ==
    /\ state.imageSource = "saved"
    /\ state.selectedSavedImageId # Null
    /\ \A k \in 1..Len(state.savedImages) :
          <<state.savedImages[k].id>> # state.selectedSavedImageId

(* C13: a handleGenerate that finds the selected saved image missing ends
   with the error set and has issued no call to the generative service,
   neither generateContent nor generateImages. *)
C13_NotFoundBeforeAnyCall ==
    [][(HandleGenerate /\ MissingSavedImage)
          => /\ state'.error = <<ErrGenerate>>
             /\ gen'.pc = "idle"
             /\ gen'.issued = {}]_vars

(* A step in which one of handleGenerate's two calls to the generative
   service is rejected, or the text call gives what JSON.parse rejects. *)
GenerationError ==
    /\ GenerateCopySettles \/ GenerateImageSettles
    /\ gen'.pc = "idle"
    /\ state'.error = <<ErrGenerate>>

(* C14: when a generative call of handleGenerate fails, the step that reports
   it changes only isLoading and error, and a creative that was there when the
   request was made is there afterwards. *)
C14_GenerationErrorPreservesState ==
    [][GenerationError
          => /\ state' = [state EXCEPT !.isLoading = FALSE, !.error = <<ErrGenerate>>]
             /\ gen.hadCreative => state'.generatedCreative # Null]_vars

(* A step of handleRegenerateCopy. *)
RegenerateStep ==
    HandleRegenerateCopy \/ RegenerateCopySettles \/ RegenerateRenderSettles

(* The data URL renderTextOnImage resolves with for an option. *)
CompositeOf(base, option, ctaText) ==
    toDataURL(renderTextOnImage(base, option.headline, option.body, ctaText).canvas)

(* One composite per option, in the options' order. *)
Aligned(creative, base, ctaText) ==
    /\ Len(creative.compositeImageUrls) = Len(creative.copyOptions)
    /\ \A i \in 1..Len(creative.copyOptions) :
          creative.compositeImageUrls[i] = CompositeOf(base, creative.copyOptions[i], ctaText)

PendingSlots(slots) == { i \in 1..Len(slots) : slots[i].status = "pending" }

(* C16: handleGenerate and handleRegenerateCopy write generatedCreative only
   in the step that settles the last pending composite, in whatever order
   the composites settled; what they write has one composite per option,
   the i-th being the rendering of the i-th option. *)
C16_IndependentSlots ==
    /\ [](/\ gen.pc = "awaitRenders" => Len(gen.slots) = Len(gen.options)
          /\ regen.pc = "awaitRenders" => Len(regen.slots) = Len(regen.options))
    /\ [][/\ (GenerateStep /\ state'.generatedCreative # state.generatedCreative
                /\ state'.generatedCreative # Null)
             => /\ gen'.pc = "idle"
                /\ gen.pc = "awaitRenders"
                      => /\ Cardinality(PendingSlots(gen.slots)) = 1
                         /\ state'.generatedCreative[1].copyOptions = gen.options
                /\ Aligned(state'.generatedCreative[1],
                           state'.generatedCreative[1].baseImageUrlWithLogo,
                           state'.generatedCreative[1].ctaText)
          /\ (RegenerateStep /\ state'.generatedCreative # state.generatedCreative)
             => /\ regen'.pc = "idle"
                /\ state'.generatedCreative # Null
                /\ regen.pc = "awaitRenders"
                      => /\ Cardinality(PendingSlots(regen.slots)) = 1
                         /\ state'.generatedCreative[1].copyOptions = regen.options
                /\ Aligned(state'.generatedCreative[1], regen.args.baseImageUrlWithLogo,
                           regen.args.ctaText)]_vars

(* A creative of two options is shown, written by handleGenerate, and a
   regeneration has its second composite before its first. *)
C16_Witness ==
    /\ state.generatedCreative # Null
    /\ Len(state.generatedCreative[1].compositeImageUrls) = 2
    /\ state.generatedCreative[1].compositeImageUrls[1]
          # state.generatedCreative[1].compositeImageUrls[2]
    /\ regen.pc = "awaitRenders"
    /\ PendingSlots(regen.slots) = {1}

(* C19 (as claimed): whenever generatedCreative is non-null its base image,
   prompt and description are defined and every composite is the rendering
   of its option over that base image with that ctaText. *)
C19_CreativeConsistent ==
    state.generatedCreative # Null =>
       LET creative == state.generatedCreative[1]
       IN  /\ creative.baseImageUrlWithLogo # undefinedUrl
           /\ creative.imagePrompt # undefined
           /\ creative.campaignDescription # undefined
           /\ Aligned(creative, creative.baseImageUrlWithLogo, creative.ctaText)

(* C20 (as claimed): when handleUpdateCreative completes, only the creative
   the form was submitted for has its headline, body, ctaText and
   finalImageUrl changed, keeping its other fields; every other saved
   creative is unchanged; a failed re-composition changes none. *)
C20_EditHitsItsCreative ==
    [][UpdateRenderSettles =>
          /\ Len(state'.savedCreatives) = Len(state.savedCreatives)
          /\ \A i \in 1..Len(state.savedCreatives) :
                LET before == state.savedCreatives[i]
                    after  == state'.savedCreatives[i]
                IN  IF before.id = upd.submittedFor /\ state'.error = state.error
                    THEN after = [ before EXCEPT
                                     !.headline = upd.updatedHeadline,
                                     !.body = upd.updatedBody,
                                     !.ctaText = <<upd.updatedCta>>,
                                     !.finalImageUrl =
                                        CompositeOf(before.baseImageUrlWithLogo,
                                                    [headline |-> upd.updatedHeadline,
                                                     body |-> upd.updatedBody],
                                                    <<upd.updatedCta>>) ]
                    ELSE after = before]_vars

(* C21 (as claimed): whenever generatedCreative is non-null, selectedIndex
   is the index of an existing option and there is one composite per
   option, however many options the service returned. *)
C21_SelectedIndexValid ==
    state.generatedCreative # Null =>
       LET creative == state.generatedCreative[1]
       IN  /\ 0 <= creative.selectedIndex
           /\ creative.selectedIndex < Len(creative.copyOptions)
           /\ Len(creative.copyOptions) = Len(creative.compositeImageUrls)

(* The bottom of the last text line drawn: of the last body line, or of the
   last headline line when no body line is drawn. *)
LastLineBottom ==
    IF NumBodyLines > 0
    THEN BodyOp(NumBodyLines).y + Locals.style.bodyLineHeight
    ELSE HeadlineOp(NumHeadlineLines).y + Locals.style.headlineLineHeight

(* C22 (as claimed): the button's top edge is at or below the bottom of the
   last text line drawn and is never above the canvas top, the repositioned
   button included. *)
C22_CtaBelowText ==
    (RenderEncoded /\ CtaNonBlank /\ NumHeadlineLines + NumBodyLines > 0) =>
        /\ Button.op = "fillRect"
        /\ Button.y >= LastLineBottom
        /\ Button.y >= 0

----------------------------------------------------------------------------
(* Properties of the image tab *)

(* C23 is about the entries handleSaveGeneratedImage appends.  No listener
   carries the textarea's text to state.imageGenPrompt, so handleGenerateImage
   always returns at its validation: no image is ever generated or shown,
   and savedImages holds only what storage held at start. *)
ImageTabNeverGenerates ==
    /\ state.imageGenPrompt = ""
    /\ imageGen = NoInvocation
    /\ ~state.isImageLoading
    /\ state.generatedImageUrl = Null
    /\ \A i \in 1..Len(state.savedImages) : state.savedImages[i] = StoredImage

(* The form was submitted and answered with the validation message. *)
ImageTabRefused ==
    /\ state.activeTab = "image"
    /\ state.imageError = <<ErrImageRequired>>

====
